---- MODULE Spec2Model ----
(***************************************************************************)
(* Model of the contact manager in bott.py: validated fields, Record,      *)
(* AddressBook, the command functions and the interactive loop.            *)
(*                                                                         *)
(* Python strings are modelled as sequences of one-character strings, so   *)
(* that strip(), split(), re.fullmatch and strptime are computed character *)
(* by character. The character "u0663" stands for U+0663 (ARABIC-INDIC    *)
(* DIGIT THREE), a non-ASCII decimal digit that Python's \d and int()      *)
(* accept.                                                                 *)
(***************************************************************************)
EXTENDS Integers, Sequences, FiniteSets, TLC

(***************************************************************************)
(* Bounds of the model and sample inputs                                   *)
(***************************************************************************)
MaxPhones == 2
MaxWindow == 7

nameA == <<"A">>
nameB == <<"B">>
P1 == <<"1", "1", "1", "1", "1", "1", "1", "1", "1", "1">>
P2 == <<"2", "2", "2", "2", "2", "2", "2", "2", "2", "2">>
PShort == <<"1", "2", "3">>
PAlpha == <<"1", "2", "3", "4", "5", "a", "b", "c", "d", "e">>
BdJun10 == <<"1", "0", ".", "0", "6", ".", "1", "9", "9", "0">>
BdJun17 == <<"1", "7", ".", "0", "6", ".", "1", "9", "9", "0">>
BdJun09 == <<"0", "9", ".", "0", "6", ".", "1", "9", "9", "0">>
BdFeb29 == <<"2", "9", ".", "0", "2", ".", "2", "0", "0", "0">>
BdBad32 == <<"3", "2", ".", "0", "1", ".", "2", "0", "0", "0">>

paddedB == <<" ", "B", " ">>
blank == <<" ">>

RawNames == {nameA, paddedB, blank}
RawPhones == {P1, P2, PShort, PAlpha}
RawBirthdays == {BdJun10, BdJun17, BdJun09, BdFeb29}

\* datetime.now() can return any instant; these are the sampled ones
Instants ==
    { [year |-> 2024, month |-> 6, day |-> 10, second |-> 0, microsecond |-> 0],
      [year |-> 2024, month |-> 6, day |-> 10, second |-> 0, microsecond |-> 1],
      [year |-> 2024, month |-> 6, day |-> 10, second |-> 43200, microsecond |-> 0],
      [year |-> 2023, month |-> 6, day |-> 16, second |-> 86399, microsecond |-> 999999] }

(***************************************************************************)
(* str helpers                                                             *)
(***************************************************************************)
Whitespace == {" ", "\t", "\n"}

RECURSIVE lstrip(_)
lstrip(s) ==
    IF s # <<>> /\ Head(s) \in Whitespace THEN lstrip(Tail(s)) ELSE s

RECURSIVE rstrip(_)
rstrip(s) ==
    IF s # <<>> /\ s[Len(s)] \in Whitespace
    THEN rstrip(SubSeq(s, 1, Len(s) - 1))
    ELSE s

strip(s) == rstrip(lstrip(s))

AsciiDigits == <<"0", "1", "2", "3", "4", "5", "6", "7", "8", "9">>

IsDigit(c) == c = "u0663" \/ \E i \in 1..10 : AsciiDigits[i] = c

DigitVal(c) ==
    IF c = "u0663" THEN 3 ELSE (CHOOSE i \in 1..10 : AsciiDigits[i] = c) - 1

(***************************************************************************)
(* Exceptions and results: a call either returns val or raises exc         *)
(***************************************************************************)
Return(v) == [exc |-> "", msg |-> "", val |-> v]
Raise(e, m) == [exc |-> e, msg |-> m, val |-> <<>>]
Raised(r) == r.exc # ""

(***************************************************************************)
(* Field types                                                             *)
(***************************************************************************)
\* Name without the strip of the stored value
Name_nostrip(value) ==
    IF strip(value) = <<>>
    THEN Raise("ValueError", "Name cannot be empty.")
    ELSE Return(value)

Name(value) ==
    IF strip(value) = <<>>
    THEN Raise("ValueError", "Name cannot be empty.")
    ELSE Return(strip(value))

PhoneLen == 10

_validate(value) ==
    Len(value) = PhoneLen /\ \A i \in 1..Len(value) : IsDigit(value[i])

Phone(value) ==
    IF ~_validate(value)
    THEN Raise("ValueError", "Phone number must be exactly 10 digits.")
    ELSE Return(value)

(***************************************************************************)
(* datetime: proleptic Gregorian calendar, time of day as second and       *)
(* microsecond of the day                                                  *)
(***************************************************************************)
MinYear == 1

IsLeap(y) == y % 4 = 0 /\ (y % 100 # 0 \/ y % 400 = 0)

DaysInMonth(y, m) ==
    IF m = 2 THEN (IF IsLeap(y) THEN 29 ELSE 28)
    ELSE IF m \in {4, 6, 9, 11} THEN 30 ELSE 31

DaysBeforeYear(y) ==
    (y - 1) * 365 + ((y - 1) \div 4) - ((y - 1) \div 100) + ((y - 1) \div 400)

RECURSIVE DaysBeforeMonth(_, _)
DaysBeforeMonth(y, m) ==
    IF m = 1 THEN 0 ELSE DaysBeforeMonth(y, m - 1) + DaysInMonth(y, m - 1)

ToOrdinal(y, m, d) == DaysBeforeYear(y) + DaysBeforeMonth(y, m) + d

ValidDate(y, m, d) ==
    y >= MinYear /\ m \in 1..12 /\ d >= 1 /\ d <= DaysInMonth(y, m)

\* datetime(y, m, d): midnight of that date
Midnight(y, m, d) ==
    [year |-> y, month |-> m, day |-> d, second |-> 0, microsecond |-> 0]

\* %d of strptime: 3[0-1] | [1-2]\d | 0[1-9] | [1-9] | " "[1-9]
DayAlt(t) ==
    \/ Len(t) = 2 /\ t[1] = "3" /\ t[2] \in {"0", "1"}
    \/ Len(t) = 2 /\ t[1] \in {"1", "2"} /\ IsDigit(t[2])
    \/ Len(t) = 2 /\ t[1] \in {"0", " "} /\ IsDigit(t[2]) /\ t[2] # "u0663" /\ t[2] # "0"
    \/ Len(t) = 1 /\ IsDigit(t[1]) /\ t[1] # "u0663" /\ t[1] # "0"

\* %m of strptime: 1[0-2] | 0[1-9] | [1-9]
MonthAlt(t) ==
    \/ Len(t) = 2 /\ t[1] = "1" /\ t[2] \in {"0", "1", "2"}
    \/ Len(t) = 2 /\ t[1] = "0" /\ IsDigit(t[2]) /\ t[2] # "u0663" /\ t[2] # "0"
    \/ Len(t) = 1 /\ IsDigit(t[1]) /\ t[1] # "u0663" /\ t[1] # "0"

RECURSIVE ToInt(_)
ToInt(t) ==
    IF t = <<>> THEN 0
    ELSE 10 * ToInt(SubSeq(t, 1, Len(t) - 1))
         + (IF t[Len(t)] = " " THEN 0 ELSE DigitVal(t[Len(t)]))

\* the (day length, month length) under which value matches %d.%m.%Y as a prefix
FormatMatches(value) ==
    { lens \in (1..2) \X (1..2) :
        LET ld == lens[1]
            lm == lens[2]
        IN  /\ Len(value) >= ld + lm + 6
            /\ DayAlt(SubSeq(value, 1, ld))
            /\ value[ld + 1] = "."
            /\ MonthAlt(SubSeq(value, ld + 2, ld + 1 + lm))
            /\ value[ld + lm + 2] = "."
            /\ \A i \in (ld + lm + 3)..(ld + lm + 6) : IsDigit(value[i]) }

\* datetime.strptime(value, "%d.%m.%Y")
strptime(value) ==
    IF FormatMatches(value) = {}
    THEN Raise("ValueError", "time data does not match format")
    ELSE LET lens == CHOOSE l \in FormatMatches(value) : TRUE
             ld == lens[1]
             lm == lens[2]
             d == ToInt(SubSeq(value, 1, ld))
             m == ToInt(SubSeq(value, ld + 2, ld + 1 + lm))
             y == ToInt(SubSeq(value, ld + lm + 3, ld + lm + 6))
         IN  IF Len(value) # ld + lm + 6
             THEN Raise("ValueError", "unconverted data remains")
             ELSE IF ~ValidDate(y, m, d)
             THEN Raise("ValueError", "day is out of range for month")
             ELSE Return(Midnight(y, m, d))

\* dt.replace(year=y)
ReplaceYear(dt, y) ==
    IF ~ValidDate(y, dt.month, dt.day)
    THEN Raise("ValueError", "day is out of range for month")
    ELSE Return([dt EXCEPT !.year = y])

DtOrdinal(dt) == ToOrdinal(dt.year, dt.month, dt.day)

\* a < b on datetimes
DtLess(a, b) ==
    \/ DtOrdinal(a) < DtOrdinal(b)
    \/ DtOrdinal(a) = DtOrdinal(b) /\ a.second < b.second
    \/ DtOrdinal(a) = DtOrdinal(b) /\ a.second = b.second
       /\ a.microsecond < b.microsecond

\* (a - b).days: timedelta normalises 0 <= microseconds < 10^6 and
\* 0 <= seconds < 86400 and carries into days
DeltaDays(a, b) ==
    LET us == a.microsecond - b.microsecond
        carryS == IF us < 0 THEN -1 ELSE 0
        secs == a.second - b.second + carryS
        carryD == IF secs < 0 THEN -1 ELSE 0
    IN  DtOrdinal(a) - DtOrdinal(b) + carryD

validate_birthday(value) == ~Raised(strptime(value))

Birthday(value) ==
    IF ~validate_birthday(value)
    THEN Raise("ValueError", "Date must be in format DD.MM.YYYY.")
    ELSE Return(value)

(***************************************************************************)
(* Record: name, ordered phone list, optional birthday (None = <<>>)       *)
(***************************************************************************)
None == <<>>

\* Record(name): name is the value of a constructed Name
Record(name) == [name |-> name, phones |-> <<>>, birthday |-> None]

\* a method call yields what it returns or raises, and the record as it leaves it
Left(res, record) == [res |-> res, rec |-> record]

add_phone(record, phone) ==
    LET p == Phone(phone)
    IN  IF Raised(p) THEN Left(p, record)
        ELSE Left(Return(None), [record EXCEPT !.phones = Append(@, p.val)])

remove_phone(record, phone) ==
    Left(Return(None),
         [record EXCEPT !.phones = SelectSeq(@, LAMBDA p : p # phone)])

\* indexes of the phone list whose value equals old_phone
Matches(record, old_phone) ==
    { i \in 1..Len(record.phones) : record.phones[i] = old_phone }

\* the index the enumerate loop stops at: the first match
FirstMatch(record, old_phone) ==
    CHOOSE i \in Matches(record, old_phone) :
        \A j \in Matches(record, old_phone) : i <= j

\* edit_phone replacing the last match instead of the first
edit_phone_last(record, old_phone, new_phone) ==
    IF Matches(record, old_phone) = {}
    THEN Left(Raise("ValueError", "Phone number not found."), record)
    ELSE LET p == Phone(new_phone)
             idx == CHOOSE i \in Matches(record, old_phone) :
                        \A j \in Matches(record, old_phone) : j <= i
         IN  IF Raised(p) THEN Left(p, record)
             ELSE Left(Return(None), [record EXCEPT !.phones[idx] = p.val])

\* edit_phone taking the old entry out before the new value is validated
edit_phone_pop(record, old_phone, new_phone) ==
    IF Matches(record, old_phone) = {}
    THEN Left(Raise("ValueError", "Phone number not found."), record)
    ELSE LET p == Phone(new_phone)
             idx == FirstMatch(record, old_phone)
         IN  IF Raised(p)
             THEN Left(p, [record EXCEPT !.phones =
                              SubSeq(@, 1, idx - 1) \o SubSeq(@, idx + 1, Len(@))])
             ELSE Left(Return(None), [record EXCEPT !.phones[idx] = p.val])

edit_phone(record, old_phone, new_phone) ==
    IF Matches(record, old_phone) = {}
    THEN Left(Raise("ValueError", "Phone number not found."), record)
    ELSE LET p == Phone(new_phone)
         IN  IF Raised(p) THEN Left(p, record)
             ELSE Left(Return(None),
                       [record EXCEPT
                          !.phones[FirstMatch(record, old_phone)] = p.val])

add_birthday(record, birthday) ==
    LET b == Birthday(birthday)
    IN  IF Raised(b) THEN Left(b, record)
        ELSE Left(Return(None), [record EXCEPT !.birthday = b.val])

\* lines 72-75 and 100-103: the day count to the birthday as the code computes it
NextBirthdayDelta(birthday, today) ==
    LET parsed == strptime(birthday)
        bday == ReplaceYear(parsed.val, today.year)
    IN  IF Raised(bday) THEN bday
        ELSE IF DtLess(bday.val, today)
        THEN LET nxt == ReplaceYear(bday.val, today.year + 1)
             IN  IF Raised(nxt) THEN nxt
                 ELSE Return(DeltaDays(nxt.val, today))
        ELSE Return(DeltaDays(bday.val, today))

\* none is TRUE when the method returns None (no birthday set)
days_to_birthday(record, today) ==
    IF record.birthday = None
    THEN [exc |-> "", msg |-> "", val |-> 0, none |-> TRUE]
    ELSE LET r == NextBirthdayDelta(record.birthday, today)
         IN  IF Raised(r)
             THEN [exc |-> r.exc, msg |-> r.msg, val |-> 0, none |-> FALSE]
             ELSE [exc |-> "", msg |-> "", val |-> r.val, none |-> FALSE]

(***************************************************************************)
(* AddressBook: a dict, modelled as the sequence of its (key, record)      *)
(* items in iteration order                                                *)
(***************************************************************************)
Keys(data) == { data[i].key : i \in 1..Len(data) }

\* position of key in data, 0 when absent
IndexOf(data, key) ==
    IF key \in Keys(data)
    THEN CHOOSE i \in 1..Len(data) : data[i].key = key
    ELSE 0

RemoveAt(data, idx) == SubSeq(data, 1, idx - 1) \o SubSeq(data, idx + 1, Len(data))

\* data[key] = record that moves an existing key to the end
SetItem_move_to_end(data, key, record) ==
    Append(IF key \in Keys(data) THEN RemoveAt(data, IndexOf(data, key)) ELSE data,
           [key |-> key, rec |-> record])

\* data[key] = record: an existing key keeps its position, a new key goes last
SetItem(data, key, record) ==
    IF key \in Keys(data)
    THEN [data EXCEPT ![IndexOf(data, key)] = [key |-> key, rec |-> record]]
    ELSE Append(data, [key |-> key, rec |-> record])

\* add_record that keeps the phones of the record it replaces
add_record_merge(data, record) ==
    IF record.name \in Keys(data)
    THEN [data EXCEPT ![IndexOf(data, record.name)] =
              [key |-> record.name,
               rec |-> [record EXCEPT !.phones = @ \o
                           SelectSeq(data[IndexOf(data, record.name)].rec.phones,
                                     LAMBDA p : ~\E i \in 1..Len(record.phones) :
                                                   record.phones[i] = p)]]]
    ELSE Append(data, [key |-> record.name, rec |-> record])

add_record(data, record) == SetItem(data, record.name, record)

\* the position of the record found, 0 for None
find(data, name) == IndexOf(data, strip(name))

\* delete that trims the name as find does
delete_strip(data, name) ==
    IF strip(name) \in Keys(data)
    THEN [res |-> Return(None), book |-> RemoveAt(data, IndexOf(data, strip(name)))]
    ELSE [res |-> Raise("KeyError", "Contact not found."), book |-> data]

\* yields what the call returns or raises, and the dict as it leaves it
delete(data, name) ==
    IF name \in Keys(data)
    THEN [res |-> Return(None), book |-> RemoveAt(data, IndexOf(data, name))]
    ELSE [res |-> Raise("KeyError", "Contact not found."), book |-> data]

RECURSIVE UpcomingFrom(_, _, _, _, _)
UpcomingFrom(data, i, days, today, upcoming) ==
    IF i > Len(data) THEN Return(upcoming)
    ELSE IF data[i].rec.birthday = None
    THEN UpcomingFrom(data, i + 1, days, today, upcoming)
    ELSE LET r == NextBirthdayDelta(data[i].rec.birthday, today)
         IN  IF Raised(r) THEN r
             ELSE IF 0 <= r.val /\ r.val < days
             THEN UpcomingFrom(data, i + 1, days, today,
                               Append(upcoming, data[i].rec))
             ELSE UpcomingFrom(data, i + 1, days, today, upcoming)

upcoming_birthdays(data, days, today) == UpcomingFrom(data, 1, days, today, <<>>)

\* Record(Name(name), Phone(phone), Birthday(birthday)); NoArg = argument left out
NoArg == <<"NoArg">>

RecordInit(name, phone, birthday) ==
    LET n == Name(name)
        p == IF phone = NoArg THEN Return(None) ELSE Phone(phone)
        b == IF birthday = NoArg THEN Return(None) ELSE Birthday(birthday)
    IN  IF Raised(n) THEN n
        ELSE IF Raised(p) THEN p
        ELSE IF Raised(b) THEN b
        ELSE Return([name |-> n.val,
                     phones |-> IF phone = NoArg THEN <<>> ELSE <<p.val>>,
                     birthday |-> b.val])

(***************************************************************************)
(* Command layer. A command function yields the message it returns (or the *)
(* exception it raises) and the book as the call leaves it; f_func is the   *)
(* function f as written, f the function as decorated with @input_error.   *)
(***************************************************************************)
Msg(prefix, text) == Return([prefix |-> prefix, text |-> text])

Outcome(res, data) == [res |-> res, book |-> data]

ExceptionClasses == {"ValueError", "KeyError"}

\* a decorator that lets the exception through
input_error_reraise(call) == call

\* the decorator: except Exception as e: return f"Error: {str(e)}"
input_error(call) ==
    IF Raised(call.res) /\ call.res.exc \in ExceptionClasses
    THEN Outcome(Msg("Error: ", call.res.msg), call.book)
    ELSE call

add_contact_func(args, data) ==
    (
        IF Len(args) < 2
        THEN Outcome(Msg("Error: ", "Provide both name and phone number."), data)
        ELSE LET name == args[1]
                 phone == args[2]
                 n == Name(name)
             IN  IF find(data, name) = 0 /\ Raised(n)
                 THEN Outcome(n, data)
                 ELSE LET data1 == IF find(data, name) = 0
                                   THEN add_record(data, Record(n.val))
                                   ELSE data
                          idx == find(data1, name)
                          r == add_phone(data1[idx].rec, phone)
                          data2 == [data1 EXCEPT ![idx].rec = r.rec]
                      IN  IF Raised(r.res) THEN Outcome(r.res, data2)
                          ELSE Outcome(Msg("Contact '", "' added or updated."),
                                       data2))

add_contact(args, data) == input_error(add_contact_func(args, data))

change_contact_func(args, data) ==
    (
        IF Len(args) < 3
        THEN Outcome(Msg("Error: ", "Provide name, old phone, and new phone."), data)
        ELSE IF Len(args) > 3
        THEN Outcome(Raise("ValueError", "too many values to unpack (expected 3)"), data)
        ELSE LET idx == find(data, args[1])
             IN  IF idx = 0
                 THEN Outcome(Msg("Contact '", "' not found."), data)
                 ELSE LET r == edit_phone(data[idx].rec, args[2], args[3])
                          data2 == [data EXCEPT ![idx].rec = r.rec]
                      IN  IF Raised(r.res) THEN Outcome(r.res, data2)
                          ELSE Outcome(Msg("Phone for '", "' updated."), data2))

change_contact(args, data) == input_error(change_contact_func(args, data))

show_phone_func(args, data) ==
    (
        IF Len(args) < 1
        THEN Outcome(Msg("Error: ", "Provide a contact name."), data)
        ELSE IF find(data, args[1]) = 0
        THEN Outcome(Msg("Contact '", "' not found."), data)
        ELSE Outcome(Msg("", data[find(data, args[1])].rec.phones), data))

show_phone(args, data) == input_error(show_phone_func(args, data))

show_all(data) ==
    IF data = <<>>
    THEN Outcome(Msg("No contacts found.", ""), data)
    ELSE Outcome(Msg("Contact name: ", data), data)

add_birthday_cmd_func(args, data) ==
    (
        IF Len(args) < 2
        THEN Outcome(Msg("Error: ",
                         "Provide a name and birthday in DD.MM.YYYY format."), data)
        ELSE LET idx == find(data, args[1])
             IN  IF idx = 0
                 THEN Outcome(Msg("Contact '", "' not found."), data)
                 ELSE LET r == add_birthday(data[idx].rec, args[2])
                          data2 == [data EXCEPT ![idx].rec = r.rec]
                      IN  IF Raised(r.res) THEN Outcome(r.res, data2)
                          ELSE Outcome(Msg("Birthday for '", "' added."), data2))

add_birthday_cmd(args, data) == input_error(add_birthday_cmd_func(args, data))

DefaultDays == 7

show_birthdays_func(data, days, today) ==
    (
        LET upcoming == upcoming_birthdays(data, days, today)
        IN  IF Raised(upcoming) THEN Outcome(upcoming, data)
            ELSE IF upcoming.val = <<>>
            THEN Outcome(Msg("No upcoming birthdays.", ""), data)
            ELSE Outcome(Msg("", upcoming.val), data))

show_birthdays(data, days, today) == input_error(show_birthdays_func(data, days, today))

(***************************************************************************)
(* State                                                                   *)
(***************************************************************************)
VARIABLES
    book,        \* AddressBook.data
    last,        \* the last call: operation, arguments, outcome, book before it
    firstAdded,  \* history: names in the order of their first ever insertion
    insertOrder, \* history: present names in the order of their latest insertion as a new key
    pc,          \* main(): "reading", "done" after break, "crashed" on an uncaught exception
    out,         \* main(): the last message printed
    file         \* addressbook.pkl: the pickled book, NoFile while absent

vars == <<book, last, firstAdded, insertOrder, pc, out, file>>

NoFile == <<"FileNotFoundError">>

\* load_data on a missing file
load_data(f) == IF f = NoFile THEN <<>> ELSE f

save_data(data) == data

Instant0 == CHOOSE t \in Instants : t.second = 0 /\ t.microsecond = 0

Call(op, args, days, today, res, pre) ==
    [op |-> op, args |-> args, days |-> days, today |-> today,
     res |-> res, pre |-> pre]

Init ==
    /\ book = load_data(NoFile)
    /\ last = Call("init", <<>>, 0, Instant0, Return(None), <<>>)
    /\ firstAdded = <<>>
    /\ insertOrder = <<>>
    /\ pc = "reading"
    /\ out = [prefix |-> "Welcome to the assistant bot!", text |-> ""]
    /\ file = NoFile

\* history bookkeeping for a step from data to data2
InSeq(x, sq) == \E i \in 1..Len(sq) : sq[i] = x

NewKeys(data, data2) ==
    SelectSeq([i \in 1..Len(data2) |-> data2[i].key],
              LAMBDA k : k \notin Keys(data))

Track(data, data2) ==
    /\ firstAdded' = firstAdded
                     \o SelectSeq(NewKeys(data, data2),
                                  LAMBDA k : ~InSeq(k, firstAdded))
    /\ insertOrder' = SelectSeq(insertOrder, LAMBDA k : k \in Keys(data2))
                      \o NewKeys(data, data2)

PhonesWithinBound(data) ==
    \A i \in 1..Len(data) : Len(data[i].rec.phones) <= MaxPhones

(***************************************************************************)
(* Calls into the core; each action is given the sets its arguments are    *)
(* drawn from                                                              *)
(***************************************************************************)
\* book.add_record(Record(Name(name), Phone(phone), Birthday(birthday)))
AddRecord(names, phones, birthdays) ==
    \E name \in names, phone \in phones, birthday \in birthdays :
        LET r == RecordInit(name, phone, birthday)
            data2 == IF Raised(r) THEN book ELSE add_record(book, r.val)
        IN  /\ pc = "reading"
            /\ book' = data2
            /\ last' = Call("add_record", <<name, phone, birthday>>, 0, Instant0,
                            r, book)
            /\ Track(book, data2)
            /\ UNCHANGED <<pc, out, file>>

\* book.delete(name)
Delete(names) ==
    \E name \in names :
        \E r \in {delete(book, name)} :
            /\ pc = "reading"
            /\ book' = r.book
            /\ last' = Call("delete", <<name>>, 0, Instant0, r.res, book)
            /\ Track(book, r.book)
            /\ UNCHANGED <<pc, out, file>>

\* a method of the record book.find(name), which it mutates in place
RecordCall(op, args, name, r) ==
    LET data2 == [book EXCEPT ![find(book, name)].rec = r.rec]
    IN  /\ pc = "reading"
        /\ PhonesWithinBound(data2)
        /\ book' = data2
        /\ last' = Call(op, args, 0, Instant0, r.res, book)
        /\ Track(book, data2)
        /\ UNCHANGED <<pc, out, file>>

\* book.find(name).add_phone(phone)
AddPhone(names, phones) ==
    \E name \in names, phone \in phones :
        /\ find(book, name) # 0
        /\ \E r \in {add_phone(book[find(book, name)].rec, phone)} :
               RecordCall("add_phone", <<name, phone>>, name, r)

\* book.find(name).remove_phone(phone)
RemovePhone(names, phones) ==
    \E name \in names, phone \in phones :
        /\ find(book, name) # 0
        /\ \E r \in {remove_phone(book[find(book, name)].rec, phone)} :
               RecordCall("remove_phone", <<name, phone>>, name, r)

\* book.find(name).edit_phone(old_phone, new_phone)
EditPhone(names, olds, news) ==
    \E name \in names, old_phone \in olds, new_phone \in news :
        /\ find(book, name) # 0
        /\ \E r \in {edit_phone(book[find(book, name)].rec, old_phone, new_phone)} :
               RecordCall("edit_phone", <<name, old_phone, new_phone>>, name, r)

\* book.find(name).days_to_birthday()
DaysToBirthday(names, instants) ==
    \E name \in names, today \in instants :
        LET idx == find(book, name)
        IN  /\ pc = "reading"
            /\ idx # 0
            /\ last' = Call("days_to_birthday", <<name>>, 0, today,
                            days_to_birthday(book[idx].rec, today), book)
            /\ UNCHANGED <<book, firstAdded, insertOrder, pc, out, file>>

\* book.upcoming_birthdays(days)
UpcomingBirthdays(windows, instants) ==
    \E days \in windows, today \in instants :
        /\ pc = "reading"
        /\ \E r \in {upcoming_birthdays(book, days, today)} :
               last' = Call("upcoming_birthdays", <<>>, days, today, r, book)
        /\ UNCHANGED <<book, firstAdded, insertOrder, pc, out, file>>

(***************************************************************************)
(* Calls of the command functions                                          *)
(***************************************************************************)
Command(op, args, call) ==
    /\ pc = "reading"
    /\ PhonesWithinBound(call.book)
    /\ book' = call.book
    /\ last' = Call(op, args, 0, Instant0, call.res, book)
    /\ Track(book, call.book)
    /\ UNCHANGED <<pc, out, file>>

AddContact(names, phones) ==
    \E name \in names, phone \in phones :
        \E call \in {add_contact(<<name, phone>>, book)} :
            Command("add_contact", <<name, phone>>, call)

ChangeContact(names, olds, news) ==
    \E name \in names, old_phone \in olds, new_phone \in news :
        \E call \in {change_contact(<<name, old_phone, new_phone>>, book)} :
            Command("change_contact", <<name, old_phone, new_phone>>, call)

AddBirthday(names, birthdays) ==
    \E name \in names, birthday \in birthdays :
        \E call \in {add_birthday_cmd(<<name, birthday>>, book)} :
            Command("add_birthday", <<name, birthday>>, call)

(***************************************************************************)
(* Spec: the address book under add_record, delete and the command         *)
(* functions, with the birthday query                                      *)
(***************************************************************************)
Next ==
    \/ AddRecord({nameA, paddedB}, {NoArg, P2}, {NoArg, BdJun10})
    \/ Delete({nameA, nameB, paddedB})
    \/ AddContact(RawNames, {P1, PShort})
    \/ ChangeContact({nameA}, {P1}, {P2, PShort})
    \/ AddBirthday({paddedB}, {BdJun10, BdBad32})
    \/ UpcomingBirthdays({DefaultDays}, {Instant0})

Spec == Init /\ [][Next]_vars

(***************************************************************************)
(* SpecRecord: the phone list of one record                                *)
(***************************************************************************)
NextRecord ==
    \/ AddRecord({nameA}, {NoArg}, {NoArg})
    \/ AddPhone({nameA}, RawPhones)
    \/ RemovePhone({nameA}, {P1, PShort})
    \/ EditPhone({nameA}, RawPhones, RawPhones)

SpecRecord == Init /\ [][NextRecord]_vars

(***************************************************************************)
(* SpecQuery: the birthday computations over books of records with         *)
(* birthdays, at sampled instants                                          *)
(***************************************************************************)
NextQuery ==
    \/ AddRecord({nameA, nameB}, {NoArg}, RawBirthdays \cup {NoArg})
    \/ DaysToBirthday({nameA, nameB}, Instants)
    \/ UpcomingBirthdays(1..MaxWindow, Instants)

SpecQuery == Init /\ [][NextQuery]_vars

(***************************************************************************)
(* main(): parse_input and the command loop                                *)
(***************************************************************************)
UpperCase == <<"A", "B", "C", "D", "E", "F", "G", "H", "I", "J", "K", "L", "M",
               "N", "O", "P", "Q", "R", "S", "T", "U", "V", "W", "X", "Y", "Z">>
LowerCase == <<"a", "b", "c", "d", "e", "f", "g", "h", "i", "j", "k", "l", "m",
               "n", "o", "p", "q", "r", "s", "t", "u", "v", "w", "x", "y", "z">>

lower(s) ==
    [i \in 1..Len(s) |->
        IF \E k \in 1..26 : UpperCase[k] = s[i]
        THEN LowerCase[CHOOSE k \in 1..26 : UpperCase[k] = s[i]]
        ELSE s[i]]

\* s.split(" ", 1)
SplitOnce(s) ==
    IF \E i \in 1..Len(s) : s[i] = " "
    THEN LET i == CHOOSE k \in 1..Len(s) :
                     s[k] = " " /\ \A j \in 1..(k - 1) : s[j] # " "
         IN  <<SubSeq(s, 1, i - 1), SubSeq(s, i + 1, Len(s))>>
    ELSE <<s>>

\* length of the leading run of non-whitespace characters
RECURSIVE WordLen(_)
WordLen(s) ==
    IF s = <<>> \/ Head(s) \in Whitespace THEN 0 ELSE 1 + WordLen(Tail(s))

\* s.split()
RECURSIVE split(_)
split(s) ==
    LET t == lstrip(s)
    IN  IF t = <<>> THEN <<>>
        ELSE <<SubSeq(t, 1, WordLen(t))>> \o split(SubSeq(t, WordLen(t) + 1, Len(t)))

parse_input(user_input) ==
    LET parts == SplitOnce(strip(user_input))
    IN  [cmd |-> lower(parts[1]),
         args |-> IF Len(parts) > 1 THEN split(parts[2]) ELSE <<>>]

CmdClose == <<"c", "l", "o", "s", "e">>
CmdExit == <<"e", "x", "i", "t">>
CmdHello == <<"h", "e", "l", "l", "o">>
CmdAdd == <<"a", "d", "d">>
CmdChange == <<"c", "h", "a", "n", "g", "e">>
CmdPhone == <<"p", "h", "o", "n", "e">>
CmdAll == <<"a", "l", "l">>
CmdAddBirthday == <<"a", "d", "d", "-", "b", "i", "r", "t", "h", "d", "a", "y">>
CmdBirthdays == <<"b", "i", "r", "t", "h", "d", "a", "y", "s">>

Commands == {CmdClose, CmdExit, CmdHello, CmdAdd, CmdChange, CmdPhone, CmdAll, CmdAddBirthday, CmdBirthdays}

\* lines typed at the prompt
LnAdd == <<"a", "d", "d", " ", "A", " ", "1", "1", "1", "1", "1", "1", "1", "1", "1", "1">>
LnAddUpper == <<"A", "D", "D", " ", "A", " ", "2", "2", "2", "2", "2", "2", "2", "2", "2", "2">>
LnAddBadPhone == <<"a", "d", "d", " ", "B", " ", "1", "2", "3">>
LnAddNoPhone == <<"a", "d", "d", " ", "A">>
LnAddPadded == <<" ", " ", "a", "d", "d", " ", " ", " ", "B", " ", " ", "2", "2", "2", "2", "2", "2", "2", "2", "2", "2", " ">>
LnChange == <<"c", "h", "a", "n", "g", "e", " ", "A", " ", "1", "1", "1", "1", "1", "1", "1", "1", "1", "1", " ", "2", "2", "2", "2", "2", "2", "2", "2", "2", "2">>
LnChangeBadPhone == <<"c", "h", "a", "n", "g", "e", " ", "A", " ", "1", "1", "1", "1", "1", "1", "1", "1", "1", "1", " ", "1", "2", "3", "4", "5", "a", "b", "c", "d", "e">>
LnChangeUnknownPhone == <<"c", "h", "a", "n", "g", "e", " ", "A", " ", "1", "2", "3", " ", "1", "1", "1", "1", "1", "1", "1", "1", "1", "1">>
LnChangeUnknown == <<"c", "h", "a", "n", "g", "e", " ", "C", " ", "1", "1", "1", "1", "1", "1", "1", "1", "1", "1", " ", "2", "2", "2", "2", "2", "2", "2", "2", "2", "2">>
LnChangeTooMany == <<"c", "h", "a", "n", "g", "e", " ", "A", " ", "1", "1", "1", "1", "1", "1", "1", "1", "1", "1", " ", "2", "2", "2", "2", "2", "2", "2", "2", "2", "2", " ", "1", "2", "3">>
LnChangeTooFew == <<"c", "h", "a", "n", "g", "e", " ", "A">>
LnPhone == <<"p", "h", "o", "n", "e", " ", "A">>
LnPhoneNoName == <<"p", "h", "o", "n", "e">>
LnPhoneUnknown == <<"p", "h", "o", "n", "e", " ", "C">>
LnAll == <<"a", "l", "l">>
LnAddBirthday == <<"a", "d", "d", "-", "b", "i", "r", "t", "h", "d", "a", "y", " ", "A", " ", "1", "0", ".", "0", "6", ".", "1", "9", "9", "0">>
LnAddBirthdayFeb29 == <<"a", "d", "d", "-", "b", "i", "r", "t", "h", "d", "a", "y", " ", "B", " ", "2", "9", ".", "0", "2", ".", "2", "0", "0", "0">>
LnAddBirthdayBad == <<"a", "d", "d", "-", "b", "i", "r", "t", "h", "d", "a", "y", " ", "A", " ", "3", "2", ".", "0", "1", ".", "2", "0", "0", "0">>
LnAddBirthdayNoDate == <<"a", "d", "d", "-", "b", "i", "r", "t", "h", "d", "a", "y", " ", "A">>
LnAddBirthdayUnknown == <<"a", "d", "d", "-", "b", "i", "r", "t", "h", "d", "a", "y", " ", "C", " ", "1", "0", ".", "0", "6", ".", "1", "9", "9", "0">>
LnBirthdays == <<"b", "i", "r", "t", "h", "d", "a", "y", "s">>
LnHello == <<"h", "e", "l", "l", "o">>
LnClose == <<"c", "l", "o", "s", "e">>
LnExit == <<"E", "x", "i", "t">>
LnUnknown == <<"d", "e", "l", "e", "t", "e", " ", "A">>
LnEmpty == <<>>
LnTab == <<"a", "d", "d", "\t", "A", " ", "1", "1", "1", "1", "1", "1", "1", "1", "1", "1">>

Lines ==
    {LnAdd,
     LnAddUpper,
     LnAddBadPhone,
     LnAddNoPhone,
     LnAddPadded,
     LnChange,
     LnChangeBadPhone,
     LnChangeUnknownPhone,
     LnChangeUnknown,
     LnChangeTooMany,
     LnChangeTooFew,
     LnPhone,
     LnPhoneNoName,
     LnPhoneUnknown,
     LnAll,
     LnAddBirthday,
     LnAddBirthdayFeb29,
     LnAddBirthdayBad,
     LnAddBirthdayNoDate,
     LnAddBirthdayUnknown,
     LnBirthdays,
     LnHello,
     LnClose,
     LnExit,
     LnUnknown,
     LnEmpty,
     LnTab}

\* One pass of the while loop for a command that prints what call yields;
\* an exception that leaves the command function ends main().
\* func is the outcome of the function as written, before the decorator.
Dispatch(user_input, today, func, call) ==
    /\ pc = "reading"
    /\ PhonesWithinBound(call.book)
    /\ book' = call.book
    /\ last' = Call("main", <<user_input>>, 0, today, func.res, book)
    /\ Track(book, call.book)
    /\ IF Raised(call.res)
       THEN pc' = "crashed" /\ out' = out
       ELSE pc' = "reading" /\ out' = call.res.val
    /\ UNCHANGED file

\* command, args = parse_input(user_input), for the lines whose command is in cmds
Typed(cmds) ==
    { t \in { [line |-> l, parsed |-> parse_input(l)] : l \in Lines } :
        t.parsed.cmd \in cmds }

MainClose ==
    \E t \in Typed({CmdClose, CmdExit}) :
        /\ pc = "reading"
        /\ file' = save_data(book)
        /\ out' = [prefix |-> "Data saved. Good bye!", text |-> ""]
        /\ pc' = "done"
        /\ last' = Call("main", <<t.line>>, 0, Instant0, Return(None), book)
        /\ UNCHANGED <<book, firstAdded, insertOrder>>

MainHello ==
    \E t \in Typed({CmdHello}) :
        \E call \in {Outcome(Msg("How can I help you?", ""), book)} :
            Dispatch(t.line, Instant0, call, call)

MainAdd ==
    \E t \in Typed({CmdAdd}) :
        \E func \in {add_contact_func(t.parsed.args, book)},
           call \in {add_contact(t.parsed.args, book)} :
            Dispatch(t.line, Instant0, func, call)

MainChange ==
    \E t \in Typed({CmdChange}) :
        \E func \in {change_contact_func(t.parsed.args, book)},
           call \in {change_contact(t.parsed.args, book)} :
            Dispatch(t.line, Instant0, func, call)

MainPhone ==
    \E t \in Typed({CmdPhone}) :
        \E func \in {show_phone_func(t.parsed.args, book)},
           call \in {show_phone(t.parsed.args, book)} :
            Dispatch(t.line, Instant0, func, call)

MainAll ==
    \E t \in Typed({CmdAll}) :
        \E call \in {show_all(book)} :
            Dispatch(t.line, Instant0, call, call)

MainAddBirthday ==
    \E t \in Typed({CmdAddBirthday}) :
        \E func \in {add_birthday_cmd_func(t.parsed.args, book)},
           call \in {add_birthday_cmd(t.parsed.args, book)} :
            Dispatch(t.line, Instant0, func, call)

MainBirthdays ==
    \E t \in Typed({CmdBirthdays}), today \in Instants :
        \E func \in {show_birthdays_func(book, DefaultDays, today)},
           call \in {show_birthdays(book, DefaultDays, today)} :
            Dispatch(t.line, today, func, call)

MainInvalid ==
    \E t \in Typed({ parse_input(l).cmd : l \in Lines } \ Commands) :
        \E call \in {Outcome(Msg("Invalid command.", ""), book)} :
            Dispatch(t.line, Instant0, call, call)

NextMain ==
    \/ MainClose
    \/ MainHello
    \/ MainAdd
    \/ MainChange
    \/ MainPhone
    \/ MainAll
    \/ MainAddBirthday
    \/ MainBirthdays
    \/ MainInvalid

SpecMain == Init /\ [][NextMain]_vars

(***************************************************************************)
(* Properties                                                              *)
(***************************************************************************)
Range(sq) == { sq[i] : i \in 1..Len(sq) }

Pos(x, sq) == CHOOSE i \in 1..Len(sq) : sq[i] = x

Records(data) == [i \in 1..Len(data) |-> data[i].rec]

TenDigits(value) ==
    Len(value) = 10 /\ \A i \in 1..Len(value) : \E k \in 1..10 : AsciiDigits[k] = value[i]

\* the record the last call was made on, before and after the call
RecordBefore == last.pre[find(last.pre, last.args[1])].rec
RecordAfter == book[find(book, last.args[1])].rec

\* calendar days from today's date to the next date with the birthday's day
\* and month, today's date included
CalendarDaysUntil(birthday, today) ==
    LET b == strptime(birthday).val
        dist == { ToOrdinal(y, b.month, b.day) - DtOrdinal(today) :
                    y \in { yy \in today.year..(today.year + 8) :
                              ValidDate(yy, b.month, b.day) } }
    IN  CHOOSE d \in dist : d >= 0 /\ \A e \in dist : e >= 0 => d <= e

\* a birthday on 29 February: the next occurrence is left open by the
\* specification, the properties below are stated for the other birthdays
LeapDay(birthday) ==
    strptime(birthday).val.month = 2 /\ strptime(birthday).val.day = 29

NoLeapDay(data) ==
    \A i \in 1..Len(data) :
        data[i].rec.birthday # None => ~LeapDay(data[i].rec.birthday)

\* C1: upcoming_birthdays(windowDays) returns exactly the records that have a
\* birthday whose next occurrence is 0 <= daysUntil < windowDays calendar days
\* after today's date, at any time of day: a birthday today is included, one
\* exactly windowDays days ahead is excluded.
C1_UpcomingWindow ==
    (last.op = "upcoming_birthdays" /\ NoLeapDay(last.pre)) =>
        /\ ~Raised(last.res)
        /\ Range(last.res.val) =
               { r \in Range(Records(last.pre)) :
                   /\ r.birthday # None
                   /\ CalendarDaysUntil(r.birthday, last.today) < last.days }

\* C2: days_to_birthday returns the non-negative number of calendar days from
\* today's date to the next occurrence of the birthday's day and month (0 on
\* the birthday itself), at any time of day; without a birthday it returns the
\* "no birthday set" signal instead of failing.
C2_DaysToBirthday ==
    (last.op = "days_to_birthday" /\ NoLeapDay(last.pre)) =>
        /\ ~Raised(last.res)
        /\ IF RecordBefore.birthday = None
           THEN last.res.none
           ELSE /\ ~last.res.none
                /\ last.res.val >= 0
                /\ last.res.val = CalendarDaysUntil(RecordBefore.birthday, last.today)

\* C3: edit_phone(old, new) with old in the list and new ten digits replaces
\* only the first entry equal to old: same length, that entry becomes new,
\* every other entry (later duplicates of old included) keeps value and place.
C3_EditReplacesFirst ==
    (/\ last.op = "edit_phone"
     /\ last.args[2] \in Range(RecordBefore.phones)
     /\ TenDigits(last.args[3])) =>
        /\ ~Raised(last.res)
        /\ Len(RecordAfter.phones) = Len(RecordBefore.phones)
        /\ \E i \in 1..Len(RecordBefore.phones) :
              /\ RecordBefore.phones[i] = last.args[2]
              /\ \A j \in 1..(i - 1) : RecordBefore.phones[j] # last.args[2]
              /\ RecordAfter.phones[i] = last.args[3]
              /\ \A j \in 1..Len(RecordBefore.phones) :
                    j # i => RecordAfter.phones[j] = RecordBefore.phones[j]

\* a record with old twice, edited: only the first became new
C3_Witness ==
    /\ last.op = "edit_phone"
    /\ last.args[2] = P1
    /\ last.args[3] = P2
    /\ RecordBefore.phones = <<P1, P1>>
    /\ RecordAfter.phones = <<P2, P1>>

C5_KeyIsTrimmedName ==
    /\ \A i \in 1..Len(book) :
          /\ book[i].key = book[i].rec.name
          /\ book[i].key = strip(book[i].key)
          /\ book[i].key # <<>>
    /\ \A i, j \in 1..Len(book) :
          i # j => /\ book[i].key # book[j].key
                   /\ book[i].rec.name # book[j].rec.name
    /\ (last.op \in {"add_record", "add_contact"} /\ strip(last.args[1]) # <<>>
        /\ (last.op = "add_record" => ~Raised(last.res))) =>
          strip(last.args[1]) \in Keys(book)

\* a record added under a name with surrounding blanks is kept under the
\* trimmed name
C5_Witness ==
    /\ last.op \in {"add_record", "add_contact"}
    /\ last.args[1] = paddedB
    /\ nameB \notin Keys(last.pre)
    /\ nameB \in Keys(book)
    /\ Len(book) = 2

\* C6: add_record under a name that is already a key replaces the record:
\* find(name) is the new record with exactly its phones, the keys are the
\* same, every other name maps to the record it had.
C6_AddRecordReplaces ==
    (/\ last.op = "add_record"
     /\ ~Raised(last.res)
     /\ last.res.val.name \in Keys(last.pre)) =>
        /\ find(book, last.res.val.name) # 0
        /\ book[find(book, last.res.val.name)].rec = last.res.val
        /\ Keys(book) = Keys(last.pre)
        /\ \A k \in Keys(book) \ {last.res.val.name} :
              book[IndexOf(book, k)].rec = last.pre[IndexOf(last.pre, k)].rec

\* a record with phone P2 replaced one that had other phones, beside a second
\* contact
C6_Witness ==
    /\ last.op = "add_record"
    /\ ~Raised(last.res)
    /\ last.res.val.name \in Keys(last.pre)
    /\ last.pre[IndexOf(last.pre, last.res.val.name)].rec.phones = <<P1>>
    /\ last.res.val.phones = <<P2>>
    /\ Len(book) = 2

\* C7: delete(name) with a name that is no exact key fails with not-found and
\* leaves the book as it was; with a key it removes that entry only, and find
\* of the name is "not found" from then on until the name is added again (a
\* name enters the book only by an add of that name).
C7_Delete ==
    /\ last.op = "delete" =>
          IF last.args[1] \in Keys(last.pre)
          THEN /\ ~Raised(last.res)
               /\ find(book, last.args[1]) = 0
               /\ book = SelectSeq(last.pre, LAMBDA e : e.key # last.args[1])
          ELSE /\ last.res.exc = "KeyError"
               /\ book = last.pre
    /\ \A k \in Keys(book) \ Keys(last.pre) :
          /\ last.op \in {"add_record", "add_contact"}
          /\ strip(last.args[1]) = k

\* one of two contacts was deleted
C7_Witness ==
    /\ last.op = "delete"
    /\ ~Raised(last.res)
    /\ Len(last.pre) = 2
    /\ Len(book) = 1
    /\ find(book, last.args[1]) = 0

\* a delete under the name with surrounding blanks failed though the trimmed
\* name is a key
C7_WitnessNotExact ==
    /\ last.op = "delete"
    /\ last.args[1] = paddedB
    /\ nameB \in Keys(book)
    /\ Raised(last.res)

\* x comes before y in the sequence sq
Before(x, y, sq) == Pos(x, sq) < Pos(y, sq)

\* C8 as stated: upcoming_birthdays returns the records in the order in which
\* their contacts were first added to the book, also after a name was deleted
\* and added again.
C8_FirstAddedOrder ==
    (last.op = "upcoming_birthdays" /\ ~Raised(last.res)) =>
        \A i, j \in 1..Len(last.res.val) :
            i < j => Before(last.res.val[i].name, last.res.val[j].name, firstAdded)

\* C8 amended: upcoming_birthdays returns the records in the order in which
\* their names were last inserted as new keys: an add under a present name
\* keeps the place, a delete followed by an add moves the name to the end.
C8_InsertionOrder ==
    (last.op = "upcoming_birthdays" /\ ~Raised(last.res)) =>
        \A i, j \in 1..Len(last.res.val) :
            i < j => Before(last.res.val[i].name, last.res.val[j].name, insertOrder)

\* two records returned, a deleted name having been added again
C8_Witness ==
    /\ last.op = "upcoming_birthdays"
    /\ ~Raised(last.res)
    /\ Len(last.res.val) = 2
    /\ firstAdded # insertOrder

\* the command of the line the loop last read
LastCommand == parse_input(last.args[1]).cmd

\* C9: the loop never ends on a bad command: an exception raised under a
\* command function is turned into a message prefixed "Error: ", the loop
\* prints a message and reads on; it ends only on close or exit.
C9_LoopSurvives ==
    /\ pc # "crashed"
    /\ pc = "done" => last.op = "main" /\ LastCommand \in {CmdClose, CmdExit}
    /\ (last.op = "main" /\ LastCommand \notin {CmdClose, CmdExit}) =>
          /\ pc = "reading"
          /\ Raised(last.res) => out.prefix = "Error: "
          /\ ~Raised(last.res) => out = last.res.val

\* a command raised under the decorator and the loop reads on
C9_Witness ==
    /\ last.op = "main"
    /\ Raised(last.res)
    /\ pc = "reading"
    /\ out.prefix = "Error: "
    /\ book # <<>>

\* C10: an add_contact call that returns an error string leaves the book as
\* it was, so a failed add creates no contact with an empty phone list.
C10_FailedAddKeepsBook ==
    (/\ last.op = "add_contact"
     /\ last.res.val.prefix = "Error: ") =>
        book = last.pre
====
